---- MODULE Spec2Model ----
(***************************************************************************)
(* buildkite-test-collector: the payload (aggregation session) built from  *)
(* the test runner's JSON events, and its split into upload batches.       *)
(*                                                                         *)
(* Strings are sequences of one-character strings, so that splitting a     *)
(* test name on "::" is computed and not assumed.  Option<T> is <<>> for   *)
(* None and <<v>> for Some(v).  Instants are counted in clock ticks.       *)
(***************************************************************************)
EXTENDS Integers, Sequences, FiniteSets, TLC

\* ------------------------------------------------------------------ bounds

\* Events applied to one payload in a run of the event specification.
MaxEvents == 4
\* Last instant the monotonic clock reaches, in ticks.
MaxTime == 2
\* Clock ticks in one millisecond: Duration::as_millis truncates to whole
\* milliseconds (1,000,000 ns each in the program).
TicksPerMilli == 2
\* Largest batch_size handed to batchify (main passes BATCH_SIZE = 500).
MaxBatchSize == 3
\* Longest test name drawn in SpecSplit, in characters.
MaxNameLen == 7
\* Lines the reading loops take from the input in one run.
MaxLines == 3

\* ----------------------------------------------------------------- options

None == <<>>

Some(v) == <<v>>

IsSome(o) == o /= <<>>

Unwrap(o) == o[1]

\* ------------------------------------------------------------------ inputs

\* Full test names of the event stream: two share the leaf "x".
Name_a_x == <<"a", ":", ":", "x">>
Name_b_x == <<"b", ":", ":", "x">>
Name_y == <<"y">>
Name_c_z == <<"c", ":", ":", "z">>
Name_w == <<"w">>

TestNames == {Name_a_x, Name_b_x, Name_y}

\* The test names drawn in SpecSplit: every string of these characters.
NameChars == {"a", ":"}

DrawnNames == UNION {[1..k -> NameChars] : k \in 0..MaxNameLen}

\* Names of the sessions handed to batchify in SpecBatch.
BatchNames == <<Name_a_x, Name_b_x, Name_y, Name_c_z, Name_w>>

ExecTimes == {1, 2}

Stdouts == {None, Some("panic")}

Stderrs == {None, Some("err")}

\* The identity record found at start-up, opaque to the payload.
TheRunEnv == [ci |-> "generic", key |-> <<"run-key">>, number |-> None]

\* ------------------------------------------------- the process environment

\* The environment is the set of the variables that are set; the value of
\* variable v, valid Unicode, is written <<"$", v>>.
Token == "BUILDKITE_ANALYTICS_TOKEN"

DetectVars ==
    {"BUILDKITE_BUILD_ID", "BUILDKITE_BUILD_NUMBER",
     "GITHUB_ACTION", "GITHUB_RUN_NUMBER", "GITHUB_RUN_ATTEMPT",
     "CIRCLE_BUILD_NUM", "CIRCLE_WORKFLOW_ID", "CI"}

EnvVars == DetectVars \cup {Token}

\* env::var(key).ok()
MaybeVar(env, key) == IF key \in env THEN Some(<<"$", key>>) ELSE None

BuildkiteEnv(env) ==
    IF MaybeVar(env, "BUILDKITE_BUILD_ID") = None THEN None
    ELSE Some([ci |-> "buildkite",
               key |-> Unwrap(MaybeVar(env, "BUILDKITE_BUILD_ID")),
               number |-> MaybeVar(env, "BUILDKITE_BUILD_NUMBER")])

GithubActionsEnv(env) ==
    IF MaybeVar(env, "GITHUB_ACTION") = None THEN None
    ELSE IF MaybeVar(env, "GITHUB_RUN_NUMBER") = None THEN None
    ELSE IF MaybeVar(env, "GITHUB_RUN_ATTEMPT") = None THEN None
    ELSE Some([ci |-> "github_actions",
               key |-> Unwrap(MaybeVar(env, "GITHUB_ACTION")) \o <<"-">>
                       \o Unwrap(MaybeVar(env, "GITHUB_RUN_NUMBER")) \o <<"-">>
                       \o Unwrap(MaybeVar(env, "GITHUB_RUN_ATTEMPT")),
               number |-> MaybeVar(env, "GITHUB_RUN_NUMBER")])

CircleCiEnv(env) ==
    IF MaybeVar(env, "CIRCLE_BUILD_NUM") = None THEN None
    ELSE IF MaybeVar(env, "CIRCLE_WORKFLOW_ID") = None THEN None
    ELSE Some([ci |-> "circleci",
               key |-> Unwrap(MaybeVar(env, "CIRCLE_WORKFLOW_ID")) \o <<"-">>
                       \o Unwrap(MaybeVar(env, "CIRCLE_BUILD_NUM")),
               number |-> MaybeVar(env, "CIRCLE_BUILD_NUM")])

\* The key is a Uuid::new_v4(), written "run-key".
GenericEnv(env) ==
    IF MaybeVar(env, "CI") = None THEN None ELSE Some(TheRunEnv)

Detect_GenericFirst(env) ==
    IF IsSome(GenericEnv(env)) THEN GenericEnv(env)
    ELSE IF IsSome(BuildkiteEnv(env)) THEN BuildkiteEnv(env)
    ELSE IF IsSome(GithubActionsEnv(env)) THEN GithubActionsEnv(env)
    ELSE CircleCiEnv(env)

\* RuntimeEnvironment::detect: the chain of or_else.
Detect(env) ==
    IF IsSome(BuildkiteEnv(env)) THEN BuildkiteEnv(env)
    ELSE IF IsSome(GithubActionsEnv(env)) THEN GithubActionsEnv(env)
    ELSE IF IsSome(CircleCiEnv(env)) THEN CircleCiEnv(env)
    ELSE GenericEnv(env)

\* get_auth_header
GetAuthHeader(env) ==
    IF MaybeVar(env, Token) = None THEN None
    ELSE Some(<<"Token token=", "\"">> \o Unwrap(MaybeVar(env, Token)) \o <<"\"">>)

\* ------------------------------------------------------------- the events

SuiteStarted == [type |-> "suite", event |-> "started", name |-> <<>>,
                 exec_time |-> None, stdout |-> None, stderr |-> None]

SuiteOk == [type |-> "suite", event |-> "ok", name |-> <<>>,
            exec_time |-> None, stdout |-> None, stderr |-> None]

SuiteFailed == [type |-> "suite", event |-> "failed", name |-> <<>>,
                exec_time |-> None, stdout |-> None, stderr |-> None]

TestStarted(n) == [type |-> "test", event |-> "started", name |-> n,
                   exec_time |-> None, stdout |-> None, stderr |-> None]

TestOk(n, x) == [type |-> "test", event |-> "ok", name |-> n,
                 exec_time |-> Some(x), stdout |-> None, stderr |-> None]

TestFailed(n, x, out, err) == [type |-> "test", event |-> "failed", name |-> n,
                               exec_time |-> Some(x), stdout |-> out, stderr |-> err]

TestIgnored(n) == [type |-> "test", event |-> "ignored", name |-> n,
                   exec_time |-> None, stdout |-> None, stderr |-> None]

TestTimeout(n) == [type |-> "test", event |-> "timeout", name |-> n,
                   exec_time |-> None, stdout |-> None, stderr |-> None]

NoEvent == [type |-> "none", event |-> "none", name |-> <<>>,
            exec_time |-> None, stdout |-> None, stderr |-> None]

\* ---------------------------------------------------------- input lines

\* The characters with the Unicode property White_Space: U+0009 to U+000D,
\* the space, U+0085, U+00A0 and U+1680 written as themselves, and those from
\* U+2000 on, which a string of this module cannot hold, written by code point.
WhiteSpace ==
    {"\t", "\n", "", "\f", "\r", " ", "", " ", " ",
     "U+2000", "U+2001", "U+2002", "U+2003", "U+2004", "U+2005",
     "U+2006", "U+2007", "U+2008", "U+2009", "U+200A",
     "U+2028", "U+2029", "U+202F", "U+205F", "U+3000"}

\* char::is_whitespace
IsWhitespace(c) == c \in WhiteSpace

\* line.chars().find(|c| !c.is_whitespace()), looking from position i on.
RECURSIVE FindNonWhitespace(_, _)
FindNonWhitespace(text, i) ==
    IF i > Len(text) THEN None
    ELSE IF IsWhitespace(text[i]) THEN FindNonWhitespace(text, i + 1)
    ELSE Some(text[i])

IsCandidate_AnyBrace(text) == \E i \in 1..Len(text) : text[i] = "{"

\* The negation of the test that makes the loop `continue`.
IsCandidate(text) == FindNonWhitespace(text, 1) = Some("{")

\* A line read as valid UTF-8, without its terminator: its characters, and what
\* serde_json::from_str::<Event> makes of it (NoEvent: an Err).
Line(text, ev) == [text |-> text, json |-> ev]

\* The text of the line that decodes to ev, the JSON body abbreviated.
EventText(ev) == <<"{", ev.type, ev.event>> \o ev.name

\* The events of the input lines: the last one names a test never started.
InputEvents ==
    {SuiteStarted, TestStarted(Name_y), TestOk(Name_y, 1), TestOk(Name_a_x, 1)}

\* The lines the input is made of: empty, blank, text with a brace, an object
\* after a form feed that is no event, an event after a carriage return, and
\* the events.
InputLines ==
    {Line(<<>>, NoEvent),
     Line(<<" ", "\t", "\r">>, NoEvent),
     Line(<<"o", "k", "{">>, NoEvent),
     Line(<<" ", "\f", "{", "?">>, NoEvent),
     Line(<<"\r">> \o EventText(TestStarted(Name_y)), TestStarted(Name_y))}
    \cup {Line(EventText(ev), ev) : ev \in InputEvents}

\* -------------------------------------------------------- str::split, join

\* Does the separator "::" start at position i of s?
SepAt(s, i) == i + 1 <= Len(s) /\ s[i] = ":" /\ s[i + 1] = ":"

\* name.split("::"): the segments of s from position i on, cur being the
\* segment under construction; matches are taken left to right.
RECURSIVE SplitFrom(_, _, _)
SplitFrom(s, i, cur) ==
    IF i > Len(s) THEN <<cur>>
    ELSE IF SepAt(s, i) THEN <<cur>> \o SplitFrom(s, i + 2, <<>>)
    ELSE SplitFrom(s, i + 1, Append(cur, s[i]))

Split(s) == SplitFrom(s, 1, <<>>)

\* chunks.join("::")
RECURSIVE Join(_)
Join(chunks) ==
    IF chunks = <<>> THEN <<>>
    ELSE IF Len(chunks) = 1 THEN chunks[1]
    ELSE chunks[1] \o <<":", ":">> \o Join(Tail(chunks))

LeafOf_First(n) == Split(n)[1]

\* name_chunks.iter().last().unwrap()
LeafOf(n) == Split(n)[Len(Split(n))]

\* name_chunks.iter().rev().skip(1).rev().collect().join("::")
ScopeOf(n) == Join(SubSeq(Split(n), 1, Len(Split(n)) - 1))

\* ------------------------------------------------------------ the payload

Passed == [result |-> "passed", failure_reason |-> None]

Failed(reason) == [result |-> "failed", failure_reason |-> reason]

\* TestHistory::is_finished
HistoryIsFinished(h) == IsSome(h.end_at)

\* TestData::is_finished
IsFinished(td) == HistoryIsFinished(td.history)

\* Payload::new
NewPayload(run_env) ==
    [run_env |-> run_env, data |-> <<>>, started_at |-> None, finished_at |-> None]

\* HashMap::insert: the entry for key k is replaced or added.
Insert(m, k, v) == [x \in (DOMAIN m) \cup {k} |-> IF x = k THEN v ELSE m[x]]

\* Instant::now().duration_since(started_at).as_millis() as f64 / 1000000.0,
\* kept as the fraction num / den of a second.
OffsetDivisor == 1000000

ElapsedMillis(t, origin) == (IF t >= origin THEN t - origin ELSE 0) \div TicksPerMilli

Offset(t, origin) == [num |-> ElapsedMillis(t, origin), den |-> OffsetDivisor]

NewUuid_Fixed(k) == 1

\* Uuid::new_v4().to_string(): the k-th identifier drawn in the run.  The 122
\* random bits of a version-4 UUID are taken to be fresh at every draw.
NewUuid(k) == k + 1

PushSuiteEvent_Resets(p, ev, t) ==
    IF ev.event = "started" THEN [p EXCEPT !.started_at = Some(t), !.data = <<>>]
    ELSE [p EXCEPT !.finished_at = Some(t)]

\* Payload::push_suite_event, applied at instant t.
PushSuiteEvent(p, ev, t) ==
    IF ev.event = "started" THEN [p EXCEPT !.started_at = Some(t)]
    ELSE [p EXCEPT !.finished_at = Some(t)]

\* The record TestEvent::Started builds.
StartedData(p, n, t, id) ==
    [id |-> id,
     name |-> LeafOf(n),
     scope |-> ScopeOf(n),
     result |-> Passed,
     history |-> [section |-> "top",
                  start_at |-> Some(Offset(t, Unwrap(p.started_at))),
                  end_at |-> None,
                  duration |-> None,
                  children |-> <<>>]]

OkData_DurationOnly(p, td, ev, t) == [td EXCEPT !.history.duration = Some(ev.exec_time)]

OkData_Rebuilt(p, td, ev, t) ==
    [td EXCEPT !.id = 0,
               !.history.end_at = Some(Offset(t, Unwrap(p.started_at))),
               !.history.duration = Some(ev.exec_time)]

OkData_EndAtOrigin(p, td, ev, t) ==
    [td EXCEPT !.history.end_at = Some(Offset(Unwrap(p.started_at), Unwrap(p.started_at))),
               !.history.duration = Some(ev.exec_time)]

\* The record TestEvent::Ok leaves for td.
OkData(p, td, ev, t) ==
    [td EXCEPT !.history.end_at = Some(Offset(t, Unwrap(p.started_at))),
               !.history.duration = Some(ev.exec_time)]

FailedData_ReasonStderr(p, td, ev, t) ==
    [td EXCEPT !.history.end_at = Some(Offset(t, Unwrap(p.started_at))),
               !.history.duration = Some(ev.exec_time),
               !.result = Failed(IF ev.stdout = None THEN ev.stderr ELSE ev.stdout)]

\* The record TestEvent::Failed leaves for td.
FailedData(p, td, ev, t) ==
    [td EXCEPT !.history.end_at = Some(Offset(t, Unwrap(p.started_at))),
               !.history.duration = Some(ev.exec_time),
               !.result = Failed(ev.stdout)]

\* The unwrap() calls of Payload::push_test_event that meet a None.
TestEventPanics(p, ev) ==
    CASE ev.event = "started" -> p.started_at = None
      [] ev.event \in {"ok", "failed"} ->
            ev.name \notin DOMAIN p.data \/ p.started_at = None
      [] OTHER -> FALSE

PushTestEvent_TimeoutReopens(p, ev, t, id) ==
    CASE ev.event = "started" ->
            [p EXCEPT !.data = Insert(p.data, ev.name, StartedData(p, ev.name, t, id))]
      [] ev.event = "ok" ->
            [p EXCEPT !.data = Insert(p.data, ev.name, OkData(p, p.data[ev.name], ev, t))]
      [] ev.event = "failed" ->
            [p EXCEPT !.data = Insert(p.data, ev.name, FailedData(p, p.data[ev.name], ev, t))]
      [] ev.event = "timeout" /\ ev.name \in DOMAIN p.data ->
            [p EXCEPT !.data[ev.name].history.end_at = None]
      [] OTHER -> p

\* Payload::push_test_event when no unwrap() panics, applied at instant t;
\* id is the identifier drawn for a Started event.
PushTestEvent(p, ev, t, id) ==
    CASE ev.event = "started" ->
            [p EXCEPT !.data = Insert(p.data, ev.name, StartedData(p, ev.name, t, id))]
      [] ev.event = "ok" ->
            [p EXCEPT !.data = Insert(p.data, ev.name, OkData(p, p.data[ev.name], ev, t))]
      [] ev.event = "failed" ->
            [p EXCEPT !.data = Insert(p.data, ev.name, FailedData(p, p.data[ev.name], ev, t))]
      [] OTHER -> p

\* Does Payload::push panic on ev?
PushPanics(p, ev) == ev.type = "test" /\ TestEventPanics(p, ev)

\* Payload::push
Push(p, ev, t, id) ==
    IF ev.type = "suite" THEN PushSuiteEvent(p, ev, t)
    ELSE PushTestEvent(p, ev, t, id)

NewClean_NoEnv(p) ==
    [run_env |-> [ci |-> "", key |-> ""], data |-> <<>>,
     started_at |-> p.started_at, finished_at |-> p.finished_at]

\* Payload::new_clean
NewClean(p) ==
    [run_env |-> p.run_env, data |-> <<>>,
     started_at |-> p.started_at, finished_at |-> p.finished_at]

ClosedData_All(p) == {p.data[k] : k \in DOMAIN p.data}

\* Payload::closed_data: the records serialised under "data".
ClosedData(p) == {td \in {p.data[k] : k \in DOMAIN p.data} : IsSome(td.history.end_at)}

\* impl Serialize for Payload: the three fields of the JSON object, the
\* records of "data" in no particular order.
Serialize(p) == [format |-> "json", run_env |-> p.run_env, data |-> ClosedData(p)]

\* ------------------------------------------------------- Payload::batchify

\* self.data.values() visited in the map's iteration order.
Values(p, order) == [i \in 1..Len(order) |-> p.data[order[i]]]

\* .partition(|test_data| test_data.is_finished())
CompleteOf(p, order) == SelectSeq(Values(p, order), IsFinished)

IsUnfinished(td) == ~IsFinished(td)

IncompleteOf(p, order) == SelectSeq(Values(p, order), IsUnfinished)

\* complete.chunks(batch_size): consecutive slices of batch_size elements,
\* the last one shorter when the length is no multiple of it.
NumChunks_OneMore(s, n) == Len(s) \div n + 1

NumChunks(s, n) == (Len(s) + n - 1) \div n

ChunkAt(s, n, i) ==
    SubSeq(s, (i - 1) * n + 1, IF i * n <= Len(s) THEN i * n ELSE Len(s))

Chunks(s, n) == [i \in 1..NumChunks(s, n) |-> ChunkAt(s, n, i)]

\* for test_data in tds.iter() { data.insert(test_data.name.clone(), ..) }
RECURSIVE InsertAll(_, _)
InsertAll(m, tds) ==
    IF tds = <<>> THEN m
    ELSE InsertAll(Insert(m, tds[1].name, tds[1]), Tail(tds))

\* Is there room left after the chunk?  payload.data.len() < batch_size
HasRoom_OrFull(m, n) == Cardinality(DOMAIN m) <= n

HasRoom(m, n) == Cardinality(DOMAIN m) < n

\* The closure of batchify's map: the payload built for one chunk.
BatchOf(p, chunk, incomplete, n) ==
    [NewClean(p) EXCEPT !.data =
        IF HasRoom(InsertAll(<<>>, chunk), n)
        THEN InsertAll(InsertAll(<<>>, chunk), incomplete)
        ELSE InsertAll(<<>>, chunk)]

\* Payload::batchify(self, batch_size), the map being visited in `order`.
Batchify(p, n, order) ==
    [i \in 1..NumChunks(CompleteOf(p, order), n) |->
        BatchOf(p, ChunkAt(CompleteOf(p, order), n, i), IncompleteOf(p, order), n)]

\* The orders in which a map with the keys of m can be visited.
IterOrders(m) ==
    {o \in [1..Cardinality(DOMAIN m) -> DOMAIN m] :
        \A i, j \in 1..Cardinality(DOMAIN m) : i /= j => o[i] /= o[j]}

\* ---------------------------------------------------------------- the run

VARIABLES
    payload,        \* the Payload main builds and feeds with events
    now,            \* the reading of the monotonic clock (Instant::now)
    environ,        \* the variables set in the process environment
    pc,             \* where the process is: "start", "parse", "echo", "batched", ...
    last_event,     \* the event handed to Payload::push last
    applied,        \* how many events were handed to Payload::push
    uuids,          \* how many identifiers Uuid::new_v4 has drawn
    since_start,    \* history: names with an Ok/Failed applied since their last Started
    terminals,      \* history: per name, the Ok/Failed events applied so far
    suite_starts,   \* history: the suite Started events applied so far
    epochs,         \* history: per name, the value of suite_starts at the last
                    \* Started event and at the last Ok/Failed event since (0: none)
    batches,        \* the Vec<Payload> batchify returned
    batch_size,     \* the batch_size batchify was called with
    iter_order,     \* the order in which batchify visited self.data
    lines_read,     \* the lines the reading loop has taken from the input
    output,         \* the lines printed to stdout
    requests,       \* per api::submit call, the body sent (None: no request)
    submit_results  \* per api::submit call, the Option<()> it returned

vars == <<payload, now, pc, last_event, applied, uuids, since_start, terminals,
          suite_starts, epochs,
          batches, batch_size, iter_order, lines_read, output, requests,
          submit_results, environ>>

\* What Payload::push and Payload::batchify never touch.
io_vars == <<lines_read, output, requests, submit_results, environ>>

IsTerminal(ev) == ev.type = "test" /\ ev.event \in {"ok", "failed"}

IsTestStarted(ev) == ev.type = "test" /\ ev.event = "started"

Init ==
    /\ payload = NewPayload(TheRunEnv)
    /\ now = 0
    /\ pc = "parse"
    /\ last_event = NoEvent
    /\ applied = 0
    /\ uuids = 0
    /\ since_start = {}
    /\ terminals = [n \in TestNames |-> 0]
    /\ suite_starts = 0
    /\ epochs = [n \in TestNames |-> [start |-> 0, end |-> 0]]
    /\ batches = <<>>
    /\ batch_size = 0
    /\ iter_order = <<>>
    /\ lines_read = <<>>
    /\ output = <<>>
    /\ requests = <<>>
    /\ submit_results = <<>>
    /\ environ = {"CI"}

\* One call payload.push(ev), the clock read at t.  A panic ends the process
\* with the payload as it was.
PushCall(ev, t) ==
    /\ pc = "parse"
    /\ applied < MaxEvents
    /\ now' = t
    /\ last_event' = ev
    /\ applied' = applied + 1
    /\ uuids' = IF IsTestStarted(ev) THEN uuids + 1 ELSE uuids
    /\ IF PushPanics(payload, ev)
       THEN /\ pc' = "panicked"
            /\ UNCHANGED <<payload, since_start, terminals,
                   suite_starts, epochs>>
       ELSE /\ pc' = pc
            /\ payload' = Push(payload, ev, t, NewUuid(uuids))
            /\ since_start' =
                 IF IsTerminal(ev) THEN since_start \cup {ev.name}
                 ELSE IF IsTestStarted(ev) THEN since_start \ {ev.name}
                 ELSE since_start
            /\ terminals' =
                 IF IsTerminal(ev)
                 THEN [terminals EXCEPT ![ev.name] = terminals[ev.name] + 1]
                 ELSE terminals
            /\ suite_starts' = IF ev = SuiteStarted THEN suite_starts + 1 ELSE suite_starts
            /\ epochs' =
                 IF IsTestStarted(ev)
                 THEN Insert(epochs, ev.name, [start |-> suite_starts, end |-> 0])
                 ELSE IF IsTerminal(ev)
                 THEN [epochs EXCEPT ![ev.name].end = suite_starts]
                 ELSE epochs
    /\ UNCHANGED <<batches, batch_size, iter_order>>

\* payload.push(ev) called on its own, outside a reading loop.
Apply(ev, t) == PushCall(ev, t) /\ UNCHANGED io_vars

ApplySuiteStarted == \E t \in now..MaxTime : Apply(SuiteStarted, t)

ApplySuiteOk == \E t \in now..MaxTime : Apply(SuiteOk, t)

ApplySuiteFailed == \E t \in now..MaxTime : Apply(SuiteFailed, t)

ApplyTestStarted == \E t \in now..MaxTime, n \in TestNames : Apply(TestStarted(n), t)

ApplyTestOk ==
    \E t \in now..MaxTime, n \in TestNames, x \in ExecTimes : Apply(TestOk(n, x), t)

ApplyTestFailed ==
    \E t \in now..MaxTime, n \in TestNames, x \in ExecTimes, out \in Stdouts, err \in Stderrs :
        Apply(TestFailed(n, x, out, err), t)

ApplyTestIgnored == \E t \in now..MaxTime, n \in TestNames : Apply(TestIgnored(n), t)

ApplyTestTimeout == \E t \in now..MaxTime, n \in TestNames : Apply(TestTimeout(n), t)

BatchifyCall_Drains(n) ==
    /\ pc = "parse"
    /\ \E order \in IterOrders(payload.data) :
          /\ batches' = Batchify(payload, n, order)
          /\ batch_size' = n
          /\ iter_order' = order
    /\ pc' = "batched"
    /\ payload' = [payload EXCEPT !.data = <<>>]
    /\ UNCHANGED <<now, last_event, applied, uuids, since_start, terminals,
                   suite_starts, epochs>>
    /\ UNCHANGED io_vars

\* payload.batchify(n), the map visited in any of its iteration orders.
BatchifyCall(n) ==
    /\ pc = "parse"
    /\ \E order \in IterOrders(payload.data) :
          /\ batches' = Batchify(payload, n, order)
          /\ batch_size' = n
          /\ iter_order' = order
    /\ pc' = "batched"
    /\ UNCHANGED <<payload, now, last_event, applied, uuids, since_start, terminals,
                   suite_starts, epochs>>
    /\ UNCHANGED io_vars

\* payload.batchify(batch_size) for any batch size up to MaxBatchSize.
DoBatchify == \E n \in 1..MaxBatchSize : BatchifyCall(n)

\* How one call of api::submit can end: the token is missing, the request
\* fails, the body cannot be read, the body is no ApiResponse, the response
\* lists errors, or all is well.
SubmitOutcomes == {"no_token", "http_error", "body_error", "json_error", "api_errors", "ok"}

\* The Option<()> api::submit returns.
SubmitResult(outcome) == IF outcome = "ok" THEN Some(<<>>) ELSE None

\* The body send_json serialises, unless get_auth_header()? returned before.
SubmitRequest(b, outcome) == IF outcome = "no_token" THEN None ELSE Some(Serialize(b))

Submit_StopsOnFailure ==
    /\ pc = "batched"
    /\ Len(submit_results) < Len(batches)
    /\ \A i \in 1..Len(submit_results) : IsSome(submit_results[i])
    /\ \E outcome \in SubmitOutcomes :
          /\ (outcome = "no_token") <=> (GetAuthHeader(environ) = None)
          /\ requests' = Append(requests,
                                SubmitRequest(batches[Len(submit_results) + 1], outcome))
          /\ submit_results' = Append(submit_results, SubmitResult(outcome))
    /\ UNCHANGED <<payload, now, pc, last_event, applied, uuids, since_start, terminals,
                   suite_starts, epochs,
                   batches, batch_size, iter_order, lines_read, output, environ>>

\* main's loop over the batches: api::submit(payload, ENDPOINT) for the next one.
Submit ==
    /\ pc = "batched"
    /\ Len(submit_results) < Len(batches)
    /\ \E outcome \in SubmitOutcomes :
          /\ (outcome = "no_token") <=> (GetAuthHeader(environ) = None)
          /\ requests' = Append(requests,
                                SubmitRequest(batches[Len(submit_results) + 1], outcome))
          /\ submit_results' = Append(submit_results, SubmitResult(outcome))
    /\ UNCHANGED <<payload, now, pc, last_event, applied, uuids, since_start, terminals,
                   suite_starts, epochs,
                   batches, batch_size, iter_order, lines_read, output, environ>>

\* -------------------------------------------------- input::parse (strict)

push_vars == <<payload, now, pc, last_event, applied, uuids, since_start, terminals,
          suite_starts, epochs,
               batches, batch_size, iter_order>>

ParseLine_Permissive ==
    /\ pc = "parse"
    /\ Len(lines_read) < MaxLines
    /\ \/ /\ pc' = "read_error"
          /\ UNCHANGED <<payload, now, last_event, applied, uuids, since_start,
                         terminals, suite_starts, epochs, batches, batch_size, iter_order,
                         lines_read, output>>
       \/ \E line \in InputLines, t \in now..MaxTime :
             /\ lines_read' = Append(lines_read, line)
             /\ output' = Append(output, line.text)
             /\ IF ~IsCandidate(line.text) \/ line.json = NoEvent
                THEN UNCHANGED push_vars
                ELSE PushCall(line.json, t)
    /\ UNCHANGED <<requests, submit_results, environ>>

\* One turn of the loop of input::parse.  Reading the line fails (an I/O
\* error, or bytes that are no UTF-8) and `line?` returns the error from parse
\* before anything is echoed; or the line is taken, echoed, skipped when it is
\* no candidate, decoded (an error returns from parse) and pushed.
ParseLine ==
    /\ pc = "parse"
    /\ Len(lines_read) < MaxLines
    /\ \/ /\ pc' = "read_error"
          /\ UNCHANGED <<payload, now, last_event, applied, uuids, since_start,
                         terminals, suite_starts, epochs, batches, batch_size, iter_order,
                         lines_read, output>>
       \/ \E line \in InputLines, t \in now..MaxTime :
             /\ lines_read' = Append(lines_read, line)
             /\ output' = Append(output, line.text)
             /\ IF ~IsCandidate(line.text)
                THEN UNCHANGED push_vars
                ELSE IF line.json = NoEvent
                THEN /\ pc' = "decode_error"
                     /\ UNCHANGED <<payload, now, last_event, applied, uuids, since_start,
                                    terminals, suite_starts, epochs, batches, batch_size,
                                    iter_order>>
                ELSE PushCall(line.json, t)
    /\ UNCHANGED <<requests, submit_results, environ>>

\* The input ends: parse returns Ok(()).
ParseEnd ==
    /\ pc = "parse"
    /\ pc' = "parsed"
    /\ UNCHANGED <<payload, now, last_event, applied, uuids, since_start, terminals,
                   suite_starts, epochs,
                   batches, batch_size, iter_order>>
    /\ UNCHANGED io_vars

NextParse == ParseLine \/ ParseEnd

SpecParse == Init /\ [][NextParse]_vars

\* ---------------------------------------------------------------- main

\* BATCH_SIZE
BATCH_SIZE == 500

\* input::parse_line(&line, &mut payload): the single-line, permissive
\* parse; a line that is no candidate or does not decode is dropped.
ParseLineCall(line, t) ==
    IF ~IsCandidate(line.text) \/ line.json = NoEvent
    THEN UNCHANGED push_vars
    ELSE PushCall(line.json, t)

\* One turn of main's loop when an environment was detected: parse_line,
\* then println; a panic in parse_line ends the process before the echo.
\* stdin.lines().flatten() drops a line that fails to read: the loop body
\* never sees it and no variable changes.
MainLine ==
    /\ pc = "parse"
    /\ Len(lines_read) < MaxLines
    /\ \E line \in InputLines, t \in now..MaxTime :
          /\ lines_read' = Append(lines_read, line)
          /\ ParseLineCall(line, t)
          /\ output' = IF pc' = "panicked" THEN output ELSE Append(output, line.text)
    /\ UNCHANGED <<requests, submit_results, environ>>

\* One turn of main's loop when no environment was detected: println only,
\* for the lines flatten() lets through.
MainEchoLine ==
    /\ pc = "echo"
    /\ Len(lines_read) < MaxLines
    /\ \E line \in InputLines :
          /\ lines_read' = Append(lines_read, line)
          /\ output' = Append(output, line.text)
    /\ UNCHANGED push_vars
    /\ UNCHANGED <<requests, submit_results, environ>>

MainBatchify_Streaming ==
    /\ pc = "parse"
    /\ \E order \in IterOrders(payload.data) :
          /\ batches' = Batchify(payload, BATCH_SIZE, order)
          /\ batch_size' = BATCH_SIZE
          /\ iter_order' = order
    /\ UNCHANGED <<payload, now, pc, last_event, applied, uuids, since_start, terminals,
                   suite_starts, epochs>>
    /\ UNCHANGED io_vars

\* stdin is exhausted: payload.batchify(BATCH_SIZE).
MainBatchify == BatchifyCall(BATCH_SIZE)

\* The environments main is started in.
MainEnvirons == {{}, {Token}, {"CI"}, {"CI", Token}, {"BUILDKITE_BUILD_ID", "CI", Token}}

\* main after the argument loop: RuntimeEnvironment::detect() found an
\* environment (pc = "parse") or none (pc = "echo", no payload is built).
InitMain ==
    /\ environ \in MainEnvirons
    /\ payload = NewPayload(IF IsSome(Detect(environ)) THEN Unwrap(Detect(environ))
                            ELSE TheRunEnv)
    /\ now = 0
    /\ pc = IF IsSome(Detect(environ)) THEN "parse" ELSE "echo"
    /\ last_event = NoEvent
    /\ applied = 0
    /\ uuids = 0
    /\ since_start = {}
    /\ terminals = [n \in TestNames |-> 0]
    /\ suite_starts = 0
    /\ epochs = [n \in TestNames |-> [start |-> 0, end |-> 0]]
    /\ batches = <<>>
    /\ batch_size = 0
    /\ iter_order = <<>>
    /\ lines_read = <<>>
    /\ output = <<>>
    /\ requests = <<>>
    /\ submit_results = <<>>

\* RuntimeEnvironment::detect() on its own, in any environment: the start of
\* main up to Payload::new(run_env) or to the branch that only echoes.
InitDetect ==
    /\ environ \in SUBSET EnvVars
    /\ payload = NewPayload(TheRunEnv)
    /\ now = 0
    /\ pc = "start"
    /\ last_event = NoEvent
    /\ applied = 0
    /\ uuids = 0
    /\ since_start = {}
    /\ terminals = [n \in TestNames |-> 0]
    /\ suite_starts = 0
    /\ epochs = [n \in TestNames |-> [start |-> 0, end |-> 0]]
    /\ batches = <<>>
    /\ batch_size = 0
    /\ iter_order = <<>>
    /\ lines_read = <<>>
    /\ output = <<>>
    /\ requests = <<>>
    /\ submit_results = <<>>

DetectCall ==
    /\ pc = "start"
    /\ IF IsSome(Detect(environ))
       THEN /\ pc' = "parse"
            /\ payload' = NewPayload(Unwrap(Detect(environ)))
       ELSE /\ pc' = "echo"
            /\ UNCHANGED payload
    /\ UNCHANGED <<now, last_event, applied, uuids, since_start, terminals,
                   suite_starts, epochs,
                   batches, batch_size, iter_order>>
    /\ UNCHANGED io_vars

SpecDetect == InitDetect /\ [][DetectCall]_vars

NextMain == MainLine \/ MainEchoLine \/ MainBatchify \/ Submit

SpecMain == InitMain /\ [][NextMain]_vars

Next ==
    \/ ApplySuiteStarted
    \/ ApplySuiteOk
    \/ ApplySuiteFailed
    \/ ApplyTestStarted
    \/ ApplyTestOk
    \/ ApplyTestFailed
    \/ ApplyTestIgnored
    \/ ApplyTestTimeout
    \/ DoBatchify

Spec == Init /\ [][Next]_vars

\* ------------------------------------- a Started event with a drawn name

\* The first test Started event of a run, its name any string of DrawnNames.
ApplyDrawnStarted ==
    /\ uuids = 0
    /\ \E t \in now..MaxTime, n \in DrawnNames : Apply(TestStarted(n), t)

NextSplit == ApplySuiteStarted \/ ApplyDrawnStarted

SpecSplit == Init /\ [][NextSplit]_vars

\* ------------------------------------------- batchify on drawn sessions

\* The elements of the sequence s that lie in the set S, in the order of s.
RECURSIVE Restrict(_, _)
Restrict(s, S) ==
    IF s = <<>> THEN <<>>
    ELSE IF s[1] \in S THEN <<s[1]>> \o Restrict(Tail(s), S)
    ELSE Restrict(Tail(s), S)

\* The events that start the tests of `started` and end those of `finished`.
RECURSIVE StartedEvents(_)
StartedEvents(ns) ==
    IF ns = <<>> THEN <<>> ELSE <<TestStarted(ns[1])>> \o StartedEvents(Tail(ns))

RECURSIVE OkEvents(_)
OkEvents(ns) ==
    IF ns = <<>> THEN <<>> ELSE <<TestOk(ns[1], 1)>> \o OkEvents(Tail(ns))

\* payload.push(ev) for every ev of evs in turn, k identifiers drawn before.
RECURSIVE PushAll(_, _, _)
PushAll(p, evs, k) ==
    IF evs = <<>> THEN p
    ELSE PushAll(Push(p, evs[1], 0, NewUuid(k)), Tail(evs),
                 IF IsTestStarted(evs[1]) THEN k + 1 ELSE k)

\* The payload after the suite started, the tests of `started` started and
\* those of `finished` ended with Ok.
SessionOf(started, finished) ==
    PushAll(NewPayload(TheRunEnv),
            <<SuiteStarted>> \o StartedEvents(Restrict(BatchNames, started))
                             \o OkEvents(Restrict(BatchNames, finished)),
            0)

BatchNameSet == {BatchNames[i] : i \in 1..Len(BatchNames)}

InitBatch ==
    /\ \E started \in SUBSET BatchNameSet : \E finished \in SUBSET started :
          /\ payload = SessionOf(started, finished)
          /\ uuids = Cardinality(started)
          /\ applied = 1 + Cardinality(started) + Cardinality(finished)
          /\ since_start = finished
          /\ terminals = [n \in BatchNameSet |-> IF n \in finished THEN 1 ELSE 0]
          /\ epochs = [n \in BatchNameSet |-> [start |-> IF n \in started THEN 1 ELSE 0,
                                                end |-> IF n \in finished THEN 1 ELSE 0]]
    /\ suite_starts = 1
    /\ now = 0
    /\ pc = "parse"
    /\ last_event = NoEvent
    /\ batches = <<>>
    /\ batch_size = 0
    /\ iter_order = <<>>
    /\ lines_read = <<>>
    /\ output = <<>>
    /\ requests = <<>>
    /\ submit_results = <<>>
    /\ environ \in {{"CI"}, {"CI", Token}}

NextBatch == DoBatchify \/ Submit

SpecBatch == InitBatch /\ [][NextBatch]_vars

\* ============================================================== the claims

\* The records a payload holds, and how many (HashMap::len).
RecordsOf(p) == {p.data[k] : k \in DOMAIN p.data}

LenOf(p) == Cardinality(DOMAIN p.data)

CompleteRecords(p) == {td \in RecordsOf(p) : IsFinished(td)}

IncompleteRecords(p) == {td \in RecordsOf(p) : ~IsFinished(td)}

\* The chunk of complete records the i-th returned batch was built from.
ChunkOfBatch(i) == ChunkAt(CompleteOf(payload, iter_order), batch_size, i)

\* No two records of the session share their leaf name.
DistinctLeaves ==
    \A k1, k2 \in DOMAIN payload.data :
        k1 /= k2 => payload.data[k1].name /= payload.data[k2].name

\* C1: every payload batchify(N) returns holds at most N test records,
\* complete and incomplete counted together.
C1_BatchHoldsAtMostN ==
    pc = "batched" =>
        \A i \in 1..Len(batches) : LenOf(batches[i]) <= batch_size

\* C2: each complete record of the session is carried by exactly one of the
\* returned batches, whatever the full test names are.
C2_CompleteInExactlyOneBatch ==
    pc = "batched" =>
        \A td \in CompleteRecords(payload) :
            Cardinality({i \in 1..Len(batches) : td \in RecordsOf(batches[i])}) = 1

\* C3: every returned batch contains at least one complete record.
C3_BatchHasCompleteRecord ==
    pc = "batched" =>
        \A i \in 1..Len(batches) : CompleteRecords(batches[i]) /= {}

\* C4: a batch carries an incomplete record only when its chunk of complete
\* records has fewer than N records; a full chunk's batch carries none.
C4_IncompleteOnlyInUnderfullChunk ==
    pc = "batched" =>
        \A i \in 1..Len(batches) :
            IncompleteRecords(batches[i]) /= {} => Len(ChunkOfBatch(i)) < batch_size

\* C5: a session without a complete record (empty, or incomplete records
\* only) yields the empty sequence of batches, for every positive N.
C5_NoCompleteNoBatch ==
    (pc = "batched" /\ CompleteRecords(payload) = {}) => batches = <<>>

C5_Witness ==
    /\ pc = "batched"
    /\ IncompleteRecords(payload) /= {}
    /\ CompleteRecords(payload) = {}
    /\ batch_size > 1
    /\ batches = <<>>

\* C6: with c complete and u incomplete records of pairwise distinct names,
\* batchify(N) returns ceil(c/N) batches; every batch but the last holds
\* exactly N records, all complete; when N does not divide c the last batch
\* holds the c mod N remaining complete records and all u incomplete ones.
C6_BatchShape ==
    (pc = "batched" /\ DistinctLeaves) =>
        LET c == Cardinality(CompleteRecords(payload))
            n == batch_size
            k == Len(batches)
        IN  /\ k * n >= c
            /\ (k - 1) * n < c \/ k = 0
            /\ \A i \in 1..(k - 1) :
                  /\ LenOf(batches[i]) = n
                  /\ IncompleteRecords(batches[i]) = {}
            /\ c % n /= 0 =>
                  /\ Cardinality(CompleteRecords(batches[k])) = c % n
                  /\ IncompleteRecords(batches[k]) = IncompleteRecords(payload)
                  /\ LenOf(batches[k]) = (c % n) + Cardinality(IncompleteRecords(payload))

C6_Witness ==
    /\ pc = "batched"
    /\ DistinctLeaves
    /\ Cardinality(CompleteRecords(payload)) = 3
    /\ Cardinality(IncompleteRecords(payload)) = 1
    /\ batch_size = 2
    /\ Len(batches) = 2
    /\ LenOf(batches[1]) = 2
    /\ LenOf(batches[2]) = 2

\* C7: a record of the session is complete exactly when an Ok or Failed event
\* for its name was applied after the Started event that created it; Ignored
\* and Timeout events complete nothing.
C7_CompleteIffTerminalApplied ==
    \A n \in DOMAIN payload.data :
        IsFinished(payload.data[n]) <=> n \in since_start

C7_Witness ==
    /\ last_event.type = "test"
    /\ last_event.event \in {"ignored", "timeout"}
    /\ \E n \in DOMAIN payload.data : IsFinished(payload.data[n]) /\ n \in since_start

\* C8: a test Ok or Failed event whose name has no record is a no-op: the
\* aggregator does not abort on it.
C8_UnknownNameIsNoOp ==
    (IsTerminal(last_event) /\ last_event.name \notin DOMAIN payload.data) =>
        pc /= "panicked"

\* C9: a test Started, Ok or Failed event applied before any suite Started
\* event does not fail, and a Started event then creates its record with a
\* defined start offset.
C9_ImplicitSuiteStart ==
    ((IsTestStarted(last_event) \/ IsTerminal(last_event)) /\ payload.started_at = None) =>
        /\ pc /= "panicked"
        /\ IsTestStarted(last_event) =>
              /\ last_event.name \in DOMAIN payload.data
              /\ IsSome(payload.data[last_event.name].history.start_at)

\* The stream applied so far holds at most one Ok/Failed event per test.
AtMostOneTerminal == \A n \in DOMAIN terminals : terminals[n] <= 1

\* The record of n is complete now and is complete, with the same end offset
\* and duration, after the step.
StaysComplete(n) ==
    /\ n \in DOMAIN payload'.data
    /\ IsFinished(payload'.data[n])
    /\ payload'.data[n].history.end_at = payload.data[n].history.end_at
    /\ payload'.data[n].history.duration = payload.data[n].history.duration

IsCompleteNow(n) == n \in DOMAIN payload.data /\ IsFinished(payload.data[n])

\* C10 as stated: once complete, a record stays complete with the same end
\* offset and duration under every later event of a stream with at most one
\* Ok/Failed event per test.
C10_CompleteStaysComplete ==
    [][\A n \in TestNames :
          (IsCompleteNow(n) /\ AtMostOneTerminal') => StaysComplete(n)]_vars

\* C10 as amended: the same, for every later event other than a Started event
\* for the same name (which replaces the record by a fresh incomplete one).
C10_CompleteUntilRestarted ==
    [][\A n \in TestNames :
          (/\ IsCompleteNow(n)
           /\ AtMostOneTerminal'
           /\ ~(applied' > applied /\ last_event' = TestStarted(n)))
          => StaysComplete(n)]_vars

C10_Witness ==
    /\ pc = "parse"
    /\ AtMostOneTerminal
    /\ last_event.type = "test"
    /\ last_event.event \in {"started", "timeout"}
    /\ \E n \in DOMAIN payload.data :
          /\ IsFinished(payload.data[n])
          /\ (last_event.event = "started" => last_event.name /= n)

\* The step hands ev to Payload::push, and push returns.
Pushes(ev) == applied' > applied /\ last_event' = ev /\ pc' /= "panicked"

\* The step hands a Started event for n to Payload::push.
Restarts(n) == applied' > applied /\ last_event' = TestStarted(n)

\* The record of n is there after the step, with the id it has now.
IdKept(n) ==
    /\ n \in DOMAIN payload'.data
    /\ payload'.data[n].id = payload.data[n].id

\* C11 as stated: the id of the record stored for a test name is the same in
\* every later state, whatever events are applied afterwards.
C11_IdNeverChanges ==
    [][\A n \in TestNames : n \in DOMAIN payload.data => IdKept(n)]_vars

\* C11 as amended: a Started event gives the name a record, and the record's
\* id is the same after every later event other than a Started event for the
\* same name.
C11_IdStableUntilRestarted ==
    [][\A n \in TestNames :
          /\ Pushes(TestStarted(n)) => n \in DOMAIN payload'.data
          /\ (n \in DOMAIN payload.data /\ ~Restarts(n)) => IdKept(n)]_vars

C11_Witness ==
    /\ pc = "parse"
    /\ applied >= 4
    /\ IsTerminal(last_event)
    /\ last_event.name \in DOMAIN payload.data
    /\ \E n \in DOMAIN payload.data : n /= last_event.name

\* C12: in every reachable session state no two records hold the same id.
C12_IdsDistinct ==
    \A k1, k2 \in DOMAIN payload.data :
        k1 /= k2 => payload.data[k1].id /= payload.data[k2].id

C12_Witness ==
    /\ Cardinality(DOMAIN payload.data) >= 2
    /\ uuids > Cardinality(DOMAIN payload.data)

\* s holds the separator "::" somewhere.
HasSeparator(s) == \E i \in 1..(Len(s) - 1) : s[i] = ":" /\ s[i + 1] = ":"

\* C13: the record a Started{name} event creates is stored under the full
\* name; its name is the final "::"-separated segment of the full name and its
\* scope the preceding segments rejoined with "::" (empty for one segment).
C13_NameAndScope ==
    /\ (IsTestStarted(last_event) /\ pc /= "panicked") =>
          last_event.name \in DOMAIN payload.data
    /\ \A n \in DOMAIN payload.data :
          LET td == payload.data[n]
          IN  /\ ~HasSeparator(td.name)
              /\ IF HasSeparator(n)
                 THEN td.scope \o <<":", ":">> \o td.name = n
                 ELSE td.scope = <<>> /\ td.name = n

C13_Witness ==
    /\ <<"a", ":", ":", "a", ":", ":", "a">> \in DOMAIN payload.data
    /\ payload.data[<<"a", ":", ":", "a", ":", ":", "a">>].name = <<"a">>
    /\ payload.data[<<"a", ":", ":", "a", ":", ":", "a">>].scope = <<"a", ":", ":", "a">>

\* The event ev with its stderr field dropped.
WithoutStderr(ev) == [ev EXCEPT !.stderr = None]

\* C14: a record's outcome is Passed from its creation until a Failed event
\* for its name is applied; Failed{stdout, stderr} sets it to Failed with
\* reason stdout, whatever stderr is; every other event, Ok included, leaves
\* the outcome as it is.
C14_Outcome ==
    [][\A n \in TestNames :
          /\ Pushes(TestStarted(n)) => payload'.data[n].result = Passed
          /\ (Pushes(last_event') /\ last_event'.type = "test"
                /\ last_event'.event = "failed" /\ last_event'.name = n) =>
                /\ payload'.data[n].result = Failed(last_event'.stdout)
                /\ payload'.data[n] =
                     FailedData(payload, payload.data[n], WithoutStderr(last_event'), now')
          /\ (/\ n \in DOMAIN payload.data
              /\ ~Restarts(n)
              /\ ~(applied' > applied /\ last_event'.event = "failed" /\ last_event'.name = n))
             => /\ n \in DOMAIN payload'.data
                /\ payload'.data[n].result = payload.data[n].result]_vars

C14_Witness ==
    /\ last_event.type = "test"
    /\ last_event.event = "failed"
    /\ last_event.stdout = Some("panic")
    /\ last_event.stderr = Some("err")
    /\ last_event.name \in DOMAIN payload.data
    /\ payload.data[last_event.name].result = Failed(Some("panic"))

\* C15: the serialized form of a payload, the session or a batch, lists
\* exactly the records it holds whose end_offset is set; an incomplete record
\* it holds is not in its serialized data.
C15_SerializedDataIsComplete ==
    /\ Serialize(payload).data = {td \in RecordsOf(payload) : td.history.end_at /= None}
    /\ \A i \in 1..Len(requests) :
          requests[i] /= None =>
              Unwrap(requests[i]).data =
                  {td \in RecordsOf(batches[i]) : td.history.end_at /= None}

C15_Witness ==
    \E i \in 1..Len(requests) :
        /\ requests[i] /= None
        /\ IncompleteRecords(batches[i]) /= {}
        /\ Unwrap(requests[i]).data /= {}

\* C16: the identity record given at construction is never changed by
\* applying events, and every batch batchify returns carries it.
C16_IdentityCarried ==
    /\ payload.run_env = TheRunEnv
    /\ \A i \in 1..Len(batches) : batches[i].run_env = TheRunEnv

C16_Witness ==
    /\ pc = "batched"
    /\ applied = 4
    /\ Len(batches) >= 1

\* C17: batchify is read-only on the session: its record mapping, and so its
\* set of complete records, is the same after batchify as before.
C17_BatchifyReadsOnly ==
    [][(pc = "parse" /\ pc' = "batched") =>
          /\ payload'.data = payload.data
          /\ CompleteRecords(payload') = CompleteRecords(payload)]_vars

C17_Witness ==
    /\ pc = "batched"
    /\ Len(batches) >= 2
    /\ IncompleteRecords(payload) /= {}

\* The step takes a line from the input; the line it takes.
LineTaken == Len(lines_read') = Len(lines_read) + 1

TakenLine == lines_read'[Len(lines_read')]

\* The first character of text that is no blank is "{".
StartsObject(text) ==
    \E i \in 1..Len(text) :
        /\ text[i] = "{"
        /\ \A j \in 1..(i - 1) : text[j] \in WhiteSpace

\* C18: in input::parse a line whose first non-whitespace character is not
\* "{" (an empty or blank line included) is skipped without error: the session
\* is as it was and the loop goes on to the next line.
C18_NonEventLineSkipped ==
    [][(LineTaken /\ ~StartsObject(TakenLine.text)) =>
          /\ payload' = payload
          /\ applied' = applied
          /\ pc' = "parse"]_vars

C18_Witness ==
    /\ Len(lines_read) = 3
    /\ ~StartsObject(lines_read[1].text)
    /\ lines_read[2].text = <<" ", "\t", "\r">>
    /\ applied = 1
    /\ payload.started_at /= None

\* C19: in input::parse a candidate line that does not decode into an event
\* makes parse return a decode error at that line: the events of the earlier
\* lines stay applied, the line applies nothing, and no later line is taken.
C19_DecodeErrorStopsParse ==
    [][/\ (LineTaken /\ StartsObject(TakenLine.text) /\ TakenLine.json = NoEvent) =>
             /\ pc' = "decode_error"
             /\ payload' = payload
             /\ applied' = applied
       /\ pc = "decode_error" => UNCHANGED vars]_vars

C19_Witness ==
    /\ pc = "decode_error"
    /\ Len(lines_read) = 3
    /\ applied = 2
    /\ DOMAIN payload.data /= {}

\* C20: every line read from the input is echoed to the output exactly once,
\* unchanged and in input order, event or not, decoded or not.
C20_EveryLineEchoed ==
    output = [i \in 1..Len(lines_read) |-> lines_read[i].text]

\* The step hands an event to the session, calls batchify, calls api::submit.
EventApplied == applied' = applied + 1

BatchifyCalled == batch_size' /= batch_size

SubmitCalled == Len(submit_results') = Len(submit_results) + 1

\* C21: in a run of main no batch is built and no submission is made before
\* the input is consumed: a line is taken or an event applied only while
\* batchify has not been called and nothing was submitted, batchify is called
\* once and before every submission, and a submission takes no line, applies
\* no event and builds no batch.
C21_ReadThenBatchThenSubmit ==
    [][/\ (LineTaken \/ EventApplied) =>
             /\ batch_size = 0 /\ batches = <<>>
             /\ requests = <<>> /\ submit_results = <<>>
             /\ ~BatchifyCalled /\ ~SubmitCalled
       /\ BatchifyCalled =>
             /\ batch_size = 0 /\ batches = <<>>
             /\ requests = <<>> /\ submit_results = <<>>
             /\ ~SubmitCalled
       /\ SubmitCalled =>
             /\ batch_size > 0
             /\ batches' = batches
             /\ payload' = payload]_vars

C21_Witness ==
    /\ Len(lines_read) = 3
    /\ applied = 3
    /\ batch_size = BATCH_SIZE
    /\ Len(batches) = 1
    /\ Len(submit_results) = 1

\* Every call of api::submit so far was for the batch at its own position:
\* the body of call i, when one was sent, is batch i serialised.
SubmittedInOrder ==
    /\ Len(requests) = Len(submit_results)
    /\ Len(submit_results) <= Len(batches)
    /\ \A i \in 1..Len(requests) :
          IsSome(requests[i]) => Unwrap(requests[i]) = Serialize(batches[i])

\* C22: each batch batchify returned is submitted exactly once and in sequence
\* order; a failed submission does not prevent the submission of the batches
\* that remain, and no submission changes the session or a batch.
C22_EachBatchSubmittedOnce ==
    /\ [](SubmittedInOrder
          /\ ((pc = "batched" /\ Len(submit_results) < Len(batches)) => ENABLED Submit))
    /\ [][SubmitCalled =>
             /\ Len(requests') = Len(requests) + 1
             /\ SubSeq(submit_results', 1, Len(submit_results)) = submit_results
             /\ SubSeq(requests', 1, Len(requests)) = requests
             /\ batches' = batches
             /\ payload' = payload
             /\ pc' = "batched"]_vars

C22_Witness ==
    /\ Len(batches) = 3
    /\ Len(submit_results) = 3
    /\ submit_results[1] = None
    /\ IsSome(requests[1])
    /\ IsSome(submit_results[2])
    /\ submit_results[3] = None

\* C23: detect returns the first environment that matches in the order
\* buildkite (BUILDKITE_BUILD_ID set), github_actions (GITHUB_ACTION,
\* GITHUB_RUN_NUMBER and GITHUB_RUN_ATTEMPT set), circleci (CIRCLE_BUILD_NUM
\* and CIRCLE_WORKFLOW_ID set), generic (CI set), and None exactly when none
\* of them matches.
C23_DetectOrder ==
    pc /= "start" =>
        IF "BUILDKITE_BUILD_ID" \in environ
        THEN pc = "parse" /\ payload.run_env.ci = "buildkite"
        ELSE IF {"GITHUB_ACTION", "GITHUB_RUN_NUMBER", "GITHUB_RUN_ATTEMPT"} \subseteq environ
        THEN pc = "parse" /\ payload.run_env.ci = "github_actions"
        ELSE IF {"CIRCLE_BUILD_NUM", "CIRCLE_WORKFLOW_ID"} \subseteq environ
        THEN pc = "parse" /\ payload.run_env.ci = "circleci"
        ELSE IF "CI" \in environ
        THEN pc = "parse" /\ payload.run_env.ci = "generic"
        ELSE pc = "echo"

C23_Witness ==
    /\ pc = "parse"
    /\ payload.run_env.ci = "circleci"
    /\ {"GITHUB_ACTION", "GITHUB_RUN_ATTEMPT", "CI"} \subseteq environ

\* The step applies a suite event; a test Ignored or Timeout event.
SuiteEventApplied == EventApplied /\ last_event'.type = "suite"

DroppedEventApplied ==
    EventApplied /\ last_event'.type = "test" /\ last_event'.event \in {"ignored", "timeout"}

\* C24: a suite event or a test Ignored or Timeout event leaves the record
\* mapping as it was: no record is created, removed or modified.  A suite
\* Started event changes started_at only, a suite Ok or Failed event
\* finished_at only, and Ignored and Timeout change nothing.
C24_RecordsUntouched ==
    [][/\ (SuiteEventApplied \/ DroppedEventApplied) =>
             /\ payload'.data = payload.data
             /\ payload'.run_env = payload.run_env
             /\ pc' = pc
       /\ (SuiteEventApplied /\ last_event'.event = "started") =>
             payload'.finished_at = payload.finished_at
       /\ (SuiteEventApplied /\ last_event'.event /= "started") =>
             payload'.started_at = payload.started_at
       /\ DroppedEventApplied => payload' = payload]_vars

C24_Witness ==
    /\ applied = 4
    /\ last_event = TestTimeout(Name_y)
    /\ Name_y \in DOMAIN payload.data
    /\ ~IsFinished(payload.data[Name_y])
    /\ IsSome(payload.finished_at)

\* Whole milliseconds between the suite start and the clock reading of the step.
MillisSinceSuiteStart == (now' - Unwrap(payload.started_at)) \div TicksPerMilli

\* The offset o is ms milliseconds expressed in seconds: o = ms / 1000.
IsSeconds(o, ms) == o.num * 1000 = ms * o.den

\* C25: the start_offset a Started event sets and the end_offset an Ok or
\* Failed event sets are the whole milliseconds elapsed since the suite start
\* divided by 1000, and the duration Ok or Failed sets is the event's exec_time.
C25_OffsetsInSeconds ==
    [][\A n \in TestNames :
          /\ (EventApplied /\ pc' /= "panicked" /\ last_event' = TestStarted(n)) =>
                IsSeconds(Unwrap(payload'.data[n].history.start_at), MillisSinceSuiteStart)
          /\ (EventApplied /\ pc' /= "panicked" /\ IsTerminal(last_event')
                 /\ last_event'.name = n) =>
                /\ IsSeconds(Unwrap(payload'.data[n].history.end_at), MillisSinceSuiteStart)
                /\ payload'.data[n].history.duration = Some(last_event'.exec_time)]_vars

\* Every complete record ends no earlier than it starts; both offsets have the
\* same divisor.
EndNotBeforeStart ==
    \A n \in DOMAIN payload.data :
        IsFinished(payload.data[n]) =>
            /\ Unwrap(payload.data[n].history.end_at).den
                  = Unwrap(payload.data[n].history.start_at).den
            /\ Unwrap(payload.data[n].history.end_at).num
                  >= Unwrap(payload.data[n].history.start_at).num

\* C26 as stated: after any sequence of applied events, the clock never going
\* backwards, every complete record has an end_offset greater than or equal to
\* its start_offset.
C26_EndNotBeforeStart == EndNotBeforeStart

\* The Started event that made the record of n and the last Ok or Failed
\* event applied to it since have no suite Started event between them.
SameOrigin(n) == epochs[n].start = epochs[n].end

\* C26 as amended: the same for every complete record whose Started event and
\* last Ok or Failed event have no suite Started event between them, so that
\* both offsets are taken from the same origin.
C26_EndNotBeforeStartSameOrigin ==
    \A n \in DOMAIN payload.data :
        (IsFinished(payload.data[n]) /\ SameOrigin(n)) =>
            /\ Unwrap(payload.data[n].history.end_at).den
                  = Unwrap(payload.data[n].history.start_at).den
            /\ Unwrap(payload.data[n].history.end_at).num
                  >= Unwrap(payload.data[n].history.start_at).num

C26_Witness ==
    /\ suite_starts = 2
    /\ \E n \in DOMAIN payload.data :
          /\ IsFinished(payload.data[n])
          /\ SameOrigin(n)
          /\ Unwrap(payload.data[n].history.end_at).num
                > Unwrap(payload.data[n].history.start_at).num

====
